---- MODULE Spec2Model ----
(***************************************************************************)
(* The dialogue orchestration of routes/assistant.js: POST /chat,          *)
(* handlePendingAction, detectAction and the Action Executor               *)
(* (createTask / createMeeting), over the persisted Conversation document  *)
(* and the Reminder collection.                                            *)
(*                                                                         *)
(* An optional JavaScript value (a key that may be missing from an object) *)
(* is a set: {} is "key absent / undefined", {v} is "key present with      *)
(* value v".  Times are minutes on one axis.                               *)
(***************************************************************************)
EXTENDS Integers, Sequences, FiniteSets, TLC

\* ---------------------------------------------------------------- bounds
\* Number of POST /chat requests accepted in one behaviour.
MaxTurns == 4

\* Request slots: two in-flight requests of the same user at most.
Procs == {1, 2}

\* ------------------------------------------------------ program constants
TaskLeadDefault == 15
MeetingLeadDefault == 10
MeetingDurationDefault == 30
ConfidenceThreshold == 50

\* ------------------------------------------------------- optional values
None == {}
Some(v) == {v}
Val(x) == CHOOSE v \in x : TRUE
\* JSON null as the value of a string-valued key
Null == "null"

\* a || d  for strings (undefined, null are falsy)
OrStr(x, d) == IF x = {} \/ x = {Null} THEN {d} ELSE x
\* a || d  for numbers (undefined, 0 are falsy)
OrNum(x, d) == IF x = {} \/ x = {0} THEN {d} ELSE x
\* a || false  for booleans
OrFalse(x) == IF x = {TRUE} THEN {TRUE} ELSE {FALSE}
\* a || d  for objects and arrays (only undefined is falsy)
OrObj(x, d) == IF x = {} THEN {d} ELSE x

\* --------------------------------------------------------------- SlotSet
AllDays == {"MO", "TU", "WE", "TH", "FR", "SA", "SU"}

\* Every key the dialogue may put into pendingAction.data.
EmptyData ==
  [title |-> {}, startDateISO |-> {}, scheduleType |-> {}, scheduleDays |-> {},
   scheduleTime |-> {}, isRoutine |-> {}, startTime |-> {}, endTime |-> {},
   duration |-> {}, isRecurring |-> {}, recurrencePattern |-> {}]

SlotNames == DOMAIN EmptyData

\* The keys present in an object.
Keys(d) == {f \in SlotNames : d[f] # {}}

\* { ...a, ...b } : every key present in b replaces a's value of that key,
\* whole value for whole value (the spread does not look into nested objects).
Spread(a, b) == [f \in SlotNames |-> IF b[f] # {} THEN b[f] ELSE a[f]]

\* ---------------------------------------------------------- PendingAction
TaskType == "create_task"
MeetingType == "schedule_meeting"

NoPA ==
  [type |-> "none", data |-> EmptyData, missingFields |-> {},
   needsRoutineConfirmation |-> FALSE, needsRoutineSchedule |-> FALSE,
   needsSpecificDays |-> FALSE, confirmationNeeded |-> FALSE]

\* conversation.pendingAction = { type, data, <flag>: true }
NewPA(type, data, flag) ==
  [NoPA EXCEPT !.type = type, !.data = data,
               !.needsRoutineConfirmation = (flag = "needsRoutineConfirmation"),
               !.confirmationNeeded = (flag = "confirmationNeeded")]

\* conversation.pendingAction = { type, data, missingFields }
NewMissingPA(type, data, missing) ==
  [NoPA EXCEPT !.type = type, !.data = data, !.missingFields = missing]

\* conversation.pendingAction && conversation.pendingAction.type
HasPending(pa) == pa.type # "none"

\* ------------------------------------------------------------ NLU Gateway
\* What a call of the model may end in; each set is a sample of the JSON the
\* prompt asks for, plus the outcome failed = TRUE: the call threw (network
\* error) or JSON.parse threw on its text, and the function's catch runs
\* (the other fields of a failed outcome are what the lost text said).

RequiredFields == {"title", "startDateISO"}

\* geminiAnalysis.data of the intent detection
DetectData ==
  { EmptyData,
    [EmptyData EXCEPT !.title = {"A"}],
    [EmptyData EXCEPT !.title = {"A"}, !.startDateISO = {100}],
    [EmptyData EXCEPT !.title = {"A"}, !.startDateISO = {100},
       !.scheduleType = {"specific-days"}, !.scheduleDays = {{"MO", "WE"}}],
    [EmptyData EXCEPT !.title = {"A"}, !.startDateISO = {100}, !.duration = {45},
       !.isRoutine = {TRUE}, !.isRecurring = {TRUE}, !.scheduleType = {"routine"},
       !.scheduleDays = {{"MO", "TU", "WE", "TH", "FR"}},
       !.scheduleTime = {[fixedTime |-> {"09:00"}, minutesBeforeStart |-> {0}]}] }

FullData == [EmptyData EXCEPT !.title = {"A"}, !.startDateISO = {100}]

DetectAnswers ==
  [failed : {FALSE}, intent : {"task", "meeting"}, confidence : {90},
   data : DetectData, missingFields : SUBSET RequiredFields]
  \cup [failed : {FALSE}, intent : {"task", "meeting"},
        confidence : {ConfidenceThreshold - 1, ConfidenceThreshold},
        data : {FullData}, missingFields : {{}}]
  \cup [failed : BOOLEAN, intent : {"none"}, confidence : {90},
        data : {EmptyData}, missingFields : {{}}]
  \cup [failed : {TRUE}, intent : {"task"}, confidence : {90},
        data : {FullData}, missingFields : {{}}]


\* modifications of analyzeUserResponseWithGemini: only the changed keys
Modifications ==
  { [EmptyData EXCEPT !.title = {"B"}],
    [EmptyData EXCEPT !.startDateISO = {200}],
    [EmptyData EXCEPT !.duration = {60}],
    [EmptyData EXCEPT !.scheduleTime = {[fixedTime |-> {"18:00"}, minutesBeforeStart |-> {}]}],
    [EmptyData EXCEPT !.scheduleTime = {[fixedTime |-> {}, minutesBeforeStart |-> {0}]}] }

\* outcomes of analyzeUserResponseWithGemini
UserAnswers ==
  [failed : BOOLEAN, intent : {"unclear"}, modifications : {EmptyData}]
  \cup [failed : {FALSE}, intent : {"confirm", "reject"}, modifications : {EmptyData}]
  \cup [failed : {FALSE}, intent : {"modify"}, modifications : Modifications]

\* outcomes of extractMissingFieldsWithGemini
ExtractedData ==
  { EmptyData,
    [EmptyData EXCEPT !.title = {"B"}],
    [EmptyData EXCEPT !.startDateISO = {200}],
    [EmptyData EXCEPT !.title = {"B"}, !.startDateISO = {200}] }

ExtractionAnswers ==
  [failed : {FALSE}, extractedData : ExtractedData, allFieldsFilled : BOOLEAN,
   remainingFields : SUBSET RequiredFields]
  \cup [failed : {TRUE}, extractedData : {EmptyData}, allFieldsFilled : {FALSE},
        remainingFields : {{}}]

\* outcomes of analyzeRoutineScheduleWithGemini and extractDaysFromMessageWithGemini
DaySets == { {}, {"MO", "WE"}, AllDays }
ScheduleAnswers ==
  [failed : {FALSE}, scheduleType : {"specific-days"}, days : DaySets]
  \cup [failed : {FALSE}, scheduleType : {"daily"}, days : {AllDays}]
  \cup [failed : BOOLEAN, scheduleType : {"unclear"}, days : {{}}]
DaysAnswers ==
  [failed : {FALSE}, days : DaySets] \cup [failed : {TRUE}, days : {{}}]

\* outcomes of checkIfRoutineActivity
RoutineAnswers ==
  [failed : BOOLEAN, likelyRoutine : {FALSE}] \cup [failed : {FALSE}, likelyRoutine : {TRUE}]

\* new Date() in createMeeting
NowTimes == {900}

\* analyzeUserResponseWithGemini: the parsed analysis, or the catch's value
AnalyzeUserResponse(o) ==
  IF o.failed THEN [intent |-> "unclear", modifications |-> EmptyData]
  ELSE [intent |-> o.intent, modifications |-> o.modifications]

\* extractMissingFieldsWithGemini: the parsed extraction, or the catch's value
ExtractMissingFields(o, missingFields) ==
  IF o.failed
  THEN [extractedData |-> EmptyData, allFieldsFilled |-> FALSE,
        remainingFields |-> missingFields]
  ELSE [extractedData |-> o.extractedData, allFieldsFilled |-> o.allFieldsFilled,
        remainingFields |-> o.remainingFields]

\* analyzeRoutineScheduleWithGemini: the parsed analysis, or the catch's value
AnalyzeRoutineSchedule(o) ==
  IF o.failed THEN [scheduleType |-> "unclear", days |-> {}]
  ELSE [scheduleType |-> o.scheduleType, days |-> o.days]

\* extractDaysFromMessageWithGemini: the parsed days, or the catch's value
ExtractDays(o) == IF o.failed THEN {} ELSE o.days

\* checkIfRoutineActivity: likelyRoutine of the analysis, or of the catch's value
LikelyRoutine(o) == IF o.failed THEN FALSE ELSE o.likelyRoutine

\* (mutant) the threshold value itself is rejected
DetectionAcceptedAbove(a) ==
  ~a.failed /\ ~(a.intent = "none" \/ a.confidence <= ConfidenceThreshold)

\* (mutant) the catch of detectActionWithGemini is missing: the analysis of
\* a failed call is used like any other
DetectionAcceptedOnFailure(a) ==
  ~(a.intent = "none" \/ a.confidence < ConfidenceThreshold)

\* detectActionWithGemini: null (FALSE here) unless the call worked, the
\* intent is not 'none' and the confidence is at least the threshold.
DetectionAccepted(a) ==
  ~a.failed /\ ~(a.intent = "none" \/ a.confidence < ConfidenceThreshold)

\* ---------------------------------------------------------- detectAction
\* taskData of detectAction
TaskData(d) ==
  [EmptyData EXCEPT
     !.title = d.title,
     !.scheduleType = OrStr(d.scheduleType, "one-day"),
     !.startDateISO = d.startDateISO,
     !.scheduleDays = OrObj(d.scheduleDays, {}),
     !.scheduleTime = OrObj(d.scheduleTime,
                            [minutesBeforeStart |-> {TaskLeadDefault}, fixedTime |-> {Null}]),
     !.isRoutine = OrFalse(d.isRoutine)]

\* new Date(x).toISOString() throws a RangeError for an invalid date
MeetingDataThrows(d) == d.startDateISO = {}

\* meetingData of detectAction
MeetingData(d) ==
  [EmptyData EXCEPT
     !.title = d.title,
     !.startTime = d.startDateISO,
     !.endTime = {Val(d.startDateISO) + Val(OrNum(d.duration, MeetingDurationDefault))},
     !.duration = OrNum(d.duration, MeetingDurationDefault),
     !.isRecurring = OrFalse(d.isRecurring),
     !.recurrencePattern = IF d.isRecurring = {TRUE} /\ d.scheduleDays # {}
                           THEN d.scheduleDays ELSE {},
     !.scheduleTime = OrObj(d.scheduleTime,
                            [minutesBeforeStart |-> {MeetingLeadDefault}, fixedTime |-> {Null}])]

\* -------------------------------------------------------- Action Executor
\* reminderData of createTask
TaskRecord(d) ==
  [type |-> "Task",
   title |-> d.title,
   startDate |-> d.startDateISO,
   endDate |-> {},
   scheduleType |-> OrStr(d.scheduleType, "one-day"),
   scheduleTime |-> OrObj(d.scheduleTime,
                          [minutesBeforeStart |-> {TaskLeadDefault}, fixedTime |-> {Null}]),
   scheduleDays |-> OrObj(d.scheduleDays, {}),
   notificationPreferenceMinutes |->
     OrNum(IF d.scheduleTime = {} THEN {} ELSE Val(d.scheduleTime).minutesBeforeStart,
           TaskLeadDefault)]

\* reminderData of createMeeting; now is the value of new Date()
MeetingRecord(d, now) ==
  [type |-> "Meeting",
   title |-> d.title,
   startDate |-> IF d.startTime # {} THEN d.startTime ELSE {now},
   endDate |-> {(IF d.startTime # {} THEN Val(d.startTime) ELSE now)
                 + Val(OrNum(d.duration, MeetingDurationDefault))},
   scheduleType |-> {"one-day"},
   scheduleTime |-> OrObj(d.scheduleTime,
                          [minutesBeforeStart |-> {MeetingLeadDefault}, fixedTime |-> {}]),
   scheduleDays |-> {},
   notificationPreferenceMinutes |-> {MeetingLeadDefault}]

\* the record the confirm branch hands to the Reminder collection
RecordFor(pa, now) ==
  IF pa.type = TaskType THEN TaskRecord(pa.data) ELSE MeetingRecord(pa.data, now)

\* (mutant) one tag for every created record, whatever its type
SuccessTagUntyped(type) == "success"

\* the `${pendingAction.type}_success` tag
SuccessTag(type) == IF type = TaskType THEN "create_task_success"
                    ELSE "schedule_meeting_success"

\* ------------------------------------------------------------------ state
VARIABLES
  db,       \* the persisted Conversation of the user: messages (roles; <<>> = no
            \* document yet) and pendingAction
  records,  \* the Reminder collection, in insertion order
  pc,       \* per request: where the request is in POST /chat
  conv,     \* per request: the in-memory Conversation document
  resp,     \* per request: the result being built, then the HTTP response
  turn,     \* per request: what the current turn has done so far (history)
  turns     \* number of requests accepted

vars == <<db, records, pc, conv, resp, turn, turns>>

NoConversation == [messages |-> <<>>, pendingAction |-> NoPA]

NoResp == [http |-> "none", success |-> FALSE, action |-> "none", title |-> {}]
\* res.status(500).json({ success: false, ... }) of the catch of POST /chat
Resp500 == [http |-> "500", success |-> FALSE, action |-> "none", title |-> {}]
\* a result object { success, response, action, data } before it is sent
Result(success, action) ==
  [http |-> "none", success |-> success, action |-> action, title |-> {}]

NoTurn ==
  [startPA |-> NoPA, startMsgs |-> <<>>, prevAction |-> "none",
   entered |-> <<>>, detectRan |-> FALSE, gwFailed |-> FALSE,
   detIntent |-> "none", detConf |-> 0, detFailed |-> FALSE,
   detMissing |-> FALSE, detRoutine |-> FALSE, likely |-> {},
   rcIntent |-> "none", sched |-> "none", days |-> {},
   intent |-> "none", mods |-> EmptyData, extracted |-> EmptyData,
   execOk |-> FALSE, created |-> <<>>]

Init ==
  /\ db = NoConversation
  /\ records = <<>>
  /\ pc = [p \in Procs |-> "idle"]
  /\ conv = [p \in Procs |-> NoConversation]
  /\ resp = [p \in Procs |-> NoResp]
  /\ turn = [p \in Procs |-> NoTurn]
  /\ turns = 0

\* ------------------------------------------------- handlePendingAction: order
Handlers == <<"routineConfirmation", "routineSchedule", "specificDays",
              "confirmation", "missingFields">>
Labels == <<"hpa_rc", "hpa_rs", "hpa_sd", "hpa_cn", "hpa_mf">>

\* (mutant) the conditions of the confirmation and missing-fields if
\* statements exchanged
FlagAtMissingFirst(pa, i) ==
  CASE i = 1 -> pa.needsRoutineConfirmation
    [] i = 2 -> pa.needsRoutineSchedule
    [] i = 3 -> pa.needsSpecificDays
    [] i = 4 -> pa.missingFields # {}
    [] OTHER -> pa.confirmationNeeded

\* the condition of the i-th if statement of handlePendingAction
FlagAt(pa, i) ==
  CASE i = 1 -> pa.needsRoutineConfirmation
    [] i = 2 -> pa.needsRoutineSchedule
    [] i = 3 -> pa.needsSpecificDays
    [] i = 4 -> pa.confirmationNeeded
    [] OTHER -> pa.missingFields # {}

\* Control after the first i-1 if statements: the first later if statement
\* whose condition holds, or the final `return null`, after which POST /chat
\* goes on to detectAction.
NextCheck(pa, i) ==
  IF \E j \in i..Len(Labels) : FlagAt(pa, j)
  THEN Labels[CHOOSE j \in i..Len(Labels) :
                 FlagAt(pa, j) /\ \A k \in i..(j - 1) : ~FlagAt(pa, k)]
  ELSE "detect"

\* ------------------------------------------------------------ POST /chat
\* failed: the Gateway call that analyses the reply threw
Enter(p, i, failed) ==
  [turn[p] EXCEPT !.entered = Append(@, Handlers[i]), !.gwFailed = @ \/ failed]

\* (mutant) the request goes on with the document the process still holds
\* from its previous request
LoadCached(stored, cached) == IF cached.messages # <<>> THEN cached ELSE stored

\* line 37: Conversation.findOne: the document comes from the store
Load(stored, cached) == stored

\* lines 38-43: a new Conversation with the system prompt when none is stored
NewConversation == [messages |-> <<"system">>, pendingAction |-> NoPA]

\* lines 33-52: read the Conversation, push the user message, dispatch
ChatReceive(p) ==
  /\ pc[p] \in {"idle", "done", "failed"}
  /\ turns < MaxTurns
  /\ LET found == Load(db, conv[p])
         base == IF found.messages = <<>> THEN NewConversation ELSE found
     IN /\ conv' = [conv EXCEPT ![p] = [base EXCEPT !.messages = Append(@, "user")]]
        /\ pc' = [pc EXCEPT ![p] = IF HasPending(base.pendingAction)
                                   THEN NextCheck(base.pendingAction, 1)
                                   ELSE "detect"]
        /\ turn' = [turn EXCEPT ![p] = [NoTurn EXCEPT !.startPA = db.pendingAction,
                                                      !.startMsgs = db.messages,
                                                      !.prevAction = resp[p].action]]
  /\ resp' = [resp EXCEPT ![p] = NoResp]
  /\ turns' = turns + 1
  /\ UNCHANGED <<db, records>>

\* (mutant) a save that is refused when the stored document is not older
\* than the one read
SaveIfNewer(doc, stored) ==
  IF Len(doc.messages) > Len(stored.messages) THEN doc ELSE stored

\* conversation.save(): the stored document becomes the in-memory one
Save(doc, stored) == doc

\* The end of a turn handled by handlePendingAction.  The handler has set
\* conversation.pendingAction to pa and, when saved, awaited
\* conversation.save() (saveOk: it worked; otherwise it throws out to the
\* catch of POST /chat); it returns result.  Lines 53-58 then push the
\* assistant's response, save again (replyOk) and send the result.  Every
\* save writes the whole document.
Returns(p, pa, saved, saveOk, replyOk, result) ==
  LET c1 == [conv[p] EXCEPT !.pendingAction = pa]
      c2 == [c1 EXCEPT !.messages = Append(@, "assistant")]
      threw == saved /\ ~saveOk
  IN /\ conv' = [conv EXCEPT ![p] = IF threw THEN c1 ELSE c2]
     /\ db' = IF threw THEN db
              ELSE IF replyOk THEN Save(c2, IF saved THEN c1 ELSE db)
              ELSE IF saved THEN Save(c1, db) ELSE db
     /\ pc' = [pc EXCEPT ![p] = IF ~threw /\ replyOk THEN "done" ELSE "failed"]
     /\ resp' = [resp EXCEPT ![p] = IF ~threw /\ replyOk
                                    THEN [result EXCEPT !.http = "200"]
                                    ELSE Resp500]

\* The handler's if statement did not return: control goes to the next one.
FallsThrough(p, pa, i) ==
  /\ pc' = [pc EXCEPT ![p] = NextCheck(pa, i + 1)]
  /\ UNCHANGED <<db, conv, resp>>

\* ---- the pendingAction each returning branch of handlePendingAction leaves
\* (mutant) needsRoutineConfirmation is not cleared
OnRoutineConfirmKeepsFlag(pa) ==
  [pa EXCEPT !.needsRoutineSchedule = TRUE, !.data.isRoutine = {TRUE}]

\* lines 446-448: the user wants a routine
OnRoutineConfirm(pa) ==
  [pa EXCEPT !.needsRoutineConfirmation = FALSE,
             !.needsRoutineSchedule = TRUE,
             !.data.isRoutine = {TRUE}]

\* (mutant) the schedule type is not forced to one-day
OnRoutineRejectKeepsSchedule(pa) ==
  NewPA(TaskType, [pa.data EXCEPT !.isRoutine = {FALSE}], "confirmationNeeded")

\* lines 462-471: the user declined the routine
OnRoutineReject(pa) ==
  NewPA(TaskType,
        [pa.data EXCEPT !.isRoutine = {FALSE}, !.scheduleType = {"one-day"}],
        "confirmationNeeded")

\* lines 492-502: daily routine
OnDaily(pa) ==
  NewPA(TaskType,
        [pa.data EXCEPT !.scheduleType = {"routine"}, !.scheduleDays = {AllDays},
                        !.isRoutine = {TRUE}],
        "confirmationNeeded")

\* (mutant) the days are not stored
OnSpecificDaysDropsDays(pa, days) ==
  NewPA(TaskType,
        [pa.data EXCEPT !.scheduleType = {"specific-days"}, !.isRoutine = {TRUE}],
        "confirmationNeeded")

\* lines 517-527 and 559-569: the days of a specific-days routine are known
OnSpecificDays(pa, days) ==
  NewPA(TaskType,
        [pa.data EXCEPT !.scheduleType = {"specific-days"}, !.scheduleDays = {days},
                        !.isRoutine = {TRUE}],
        "confirmationNeeded")

\* (mutant) needsRoutineSchedule is not cleared when the days are asked for
OnAskDaysKeepsSchedule(pa) == [pa EXCEPT !.needsSpecificDays = TRUE]

\* lines 538-539: specific days chosen, none named
OnAskDays(pa) ==
  [pa EXCEPT !.needsRoutineSchedule = FALSE, !.needsSpecificDays = TRUE]

\* (mutant) the reject branch of the confirmation forgets to clear
OnConfirmRejectKeeps(pa) == pa

\* line 646: conversation.pendingAction = null
OnConfirmReject(pa) == NoPA

\* (mutant) the confirm branch forgets to clear after the creation
OnCreatedKeeps(pa) == pa

\* line 625: conversation.pendingAction = null after the creation
OnCreated(pa) == NoPA

\* (mutant) an unclear reply to the confirmation drops the pendingAction
OnUnclearClears(pa) == NoPA

\* lines 677-686: an unclear reply leaves conversation.pendingAction alone
OnUnclear(pa) == pa

\* (mutant) a modification sends the PendingAction back to the Slot Filler
OnModifyReopens(pa, modifications) ==
  NewMissingPA(pa.type, Spread(pa.data, modifications), Keys(modifications))

\* (mutant) the modifications replace the data instead of being merged
OnModifyReplaces(pa, modifications) == [pa EXCEPT !.data = modifications]

\* lines 658-661: apply the modifications
OnModify(pa, modifications) ==
  [pa EXCEPT !.data = Spread(pa.data, modifications)]

\* lines 714-718: all missing fields are filled
OnFieldsFilled(pa, updatedData) ==
  NewPA(pa.type, updatedData, "confirmationNeeded")

\* lines 731-732: some fields are still missing
OnFieldsMissing(pa, updatedData, remainingFields) ==
  [pa EXCEPT !.data = updatedData, !.missingFields = remainingFields]

\* lines 436-481: if (pendingAction.needsRoutineConfirmation)
HandleRoutineConfirmation(p) ==
  /\ pc[p] = "hpa_rc"
  /\ \E o \in UserAnswers, saveOk \in BOOLEAN, replyOk \in BOOLEAN :
       LET pa == conv[p].pendingAction
           ui == AnalyzeUserResponse(o).intent
       IN /\ turn' = [turn EXCEPT ![p] = [Enter(p, 1, o.failed) EXCEPT !.rcIntent = ui]]
          /\ IF ui = "confirm"
             THEN Returns(p, OnRoutineConfirm(pa), TRUE, saveOk, replyOk, Result(TRUE, "needs_routine_schedule"))
             ELSE IF ui = "reject"
             THEN Returns(p, OnRoutineReject(pa), TRUE, saveOk, replyOk, Result(TRUE, "confirm_action"))
             ELSE FallsThrough(p, pa, 1)
  /\ UNCHANGED <<records, turns>>

\* lines 483-550: if (pendingAction.needsRoutineSchedule)
HandleRoutineSchedule(p) ==
  /\ pc[p] = "hpa_rs"
  /\ \E o \in ScheduleAnswers, saveOk \in BOOLEAN, replyOk \in BOOLEAN :
       LET pa == conv[p].pendingAction
           sd == AnalyzeRoutineSchedule(o)
       IN /\ turn' = [turn EXCEPT ![p] =
                        [Enter(p, 2, o.failed) EXCEPT !.sched = sd.scheduleType,
                                                      !.days = sd.days]]
          /\ IF sd.scheduleType = "daily"
             THEN Returns(p, OnDaily(pa), TRUE, saveOk, replyOk, Result(TRUE, "confirm_action"))
             ELSE IF sd.scheduleType = "specific-days" /\ sd.days # {}
             THEN Returns(p, OnSpecificDays(pa, sd.days), TRUE, saveOk, replyOk, Result(TRUE, "confirm_action"))
             ELSE IF sd.scheduleType = "specific-days"
             THEN Returns(p, OnAskDays(pa), TRUE, saveOk, replyOk, Result(TRUE, "needs_specific_days"))
             ELSE FallsThrough(p, pa, 2)
  /\ UNCHANGED <<records, turns>>

\* lines 552-586: if (pendingAction.needsSpecificDays)
HandleSpecificDays(p) ==
  /\ pc[p] = "hpa_sd"
  /\ \E o \in DaysAnswers, saveOk \in BOOLEAN, replyOk \in BOOLEAN :
       LET pa == conv[p].pendingAction
           days == ExtractDays(o)
       IN /\ turn' = [turn EXCEPT ![p] = [Enter(p, 3, o.failed) EXCEPT !.days = days]]
          /\ IF days # {}
             THEN Returns(p, OnSpecificDays(pa, days), TRUE, saveOk, replyOk, Result(TRUE, "confirm_action"))
             ELSE Returns(p, pa, FALSE, saveOk, replyOk,
                          Result(TRUE, "needs_specific_days"))
  /\ UNCHANGED <<records, turns>>

\* lines 588-687: if (pendingAction.confirmationNeeded)
HandleConfirmation(p) ==
  /\ pc[p] = "hpa_cn"
  /\ \E o \in UserAnswers, writeOk \in BOOLEAN, saveOk \in BOOLEAN,
        replyOk \in BOOLEAN, now \in NowTimes :
       LET pa == conv[p].pendingAction
           ui == AnalyzeUserResponse(o)
           item == RecordFor(pa, now)
           hist == [Enter(p, 4, o.failed) EXCEPT !.intent = ui.intent, !.mods = ui.modifications]
       IN IF ui.intent = "confirm"
          THEN \* try { createTask / createMeeting; pendingAction = null; save }
               \* catch { return creation_failed }: a throw of either await
               \* ends in the catch, the record write is not undone
               /\ records' = IF writeOk THEN Append(records, item) ELSE records
               /\ turn' = [turn EXCEPT ![p] =
                             [hist EXCEPT !.execOk = writeOk,
                                          !.created = IF writeOk THEN <<item>> ELSE <<>>]]
               /\ Returns(p, IF writeOk THEN OnCreated(pa) ELSE pa, writeOk /\ saveOk, TRUE, replyOk,
                          IF writeOk /\ saveOk
                          THEN [Result(TRUE, SuccessTag(pa.type)) EXCEPT !.title = item.title]
                          ELSE Result(FALSE, "creation_failed"))
          ELSE /\ turn' = [turn EXCEPT ![p] = hist]
               /\ UNCHANGED records
               /\ IF ui.intent = "reject"
                  THEN Returns(p, OnConfirmReject(pa), TRUE, saveOk, replyOk,
                               Result(TRUE, "action_cancelled"))
                  ELSE IF ui.intent = "modify"
                  THEN Returns(p, OnModify(pa, ui.modifications),
                               TRUE, saveOk, replyOk, Result(TRUE, "confirm_action"))
                  ELSE Returns(p, OnUnclear(pa), FALSE, saveOk, replyOk,
                               Result(TRUE, "awaiting_confirmation"))
  /\ UNCHANGED turns

\* lines 689-745: if (pendingAction.missingFields && pendingAction.missingFields.length > 0)
HandleMissingFields(p) ==
  /\ pc[p] = "hpa_mf"
  /\ \E o \in ExtractionAnswers, saveOk \in BOOLEAN, replyOk \in BOOLEAN :
       LET pa == conv[p].pendingAction
           ex == ExtractMissingFields(o, pa.missingFields)
           updatedData == Spread(pa.data, ex.extractedData)
       IN /\ turn' = [turn EXCEPT ![p] =
                        [Enter(p, 5, o.failed) EXCEPT !.extracted = ex.extractedData]]
          /\ IF ex.allFieldsFilled
             THEN Returns(p, OnFieldsFilled(pa, updatedData),
                          TRUE, saveOk, replyOk, Result(TRUE, "confirm_action"))
             ELSE Returns(p, OnFieldsMissing(pa, updatedData, ex.remainingFields),
                          TRUE, saveOk, replyOk, Result(TRUE, "needs_info"))
  /\ UNCHANGED <<records, turns>>

\* (mutant) the routine question is never asked
AsksRoutineNever(a, likely) == FALSE

\* (mutant) the routine question is asked whatever the data asserts
AsksRoutineAlways(a, likely) == likely

\* line 345: routineCheck.likelyRoutine && !geminiAnalysis.data.isRoutine
AsksRoutine(a, likely) == likely /\ a.data.isRoutine # {TRUE}

\* The pendingAction POST /chat stores for what detectAction returned, with
\* the action tag it answers; type "none" when detectAction returned null.
\* likely is routineCheck.likelyRoutine.
DetectedPending(a, likely) ==
  IF ~DetectionAccepted(a)
  THEN [pa |-> NoPA, action |-> "none"]
  ELSE IF a.missingFields # {}
  THEN [pa |-> NewMissingPA(IF a.intent = "task" THEN TaskType ELSE MeetingType,
                            a.data, a.missingFields),
        action |-> "needs_info"]
  ELSE IF a.intent = "task"
  THEN IF AsksRoutine(a, likely)
       THEN [pa |-> NewPA(TaskType, TaskData(a.data), "needsRoutineConfirmation"),
             action |-> "needs_routine_confirmation"]
       ELSE [pa |-> NewPA(TaskType, TaskData(a.data), "confirmationNeeded"),
             action |-> "confirm_action"]
  ELSE [pa |-> NewPA(MeetingType, MeetingData(a.data), "confirmationNeeded"),
        action |-> "confirm_action"]

\* lines 61-121: detectAction on the message; store and announce the new
\* pendingAction (one save, no assistant message pushed), or go on to the
\* plain chat
DetectAction(p) ==
  /\ pc[p] = "detect"
  /\ \E a \in DetectAnswers, rc \in RoutineAnswers, saveOk \in BOOLEAN :
       LET throws == /\ DetectionAccepted(a)
                     /\ a.missingFields = {}
                     /\ a.intent = "meeting"
                     /\ MeetingDataThrows(a.data)
           d == DetectedPending(a, LikelyRoutine(rc))
           c == [conv[p] EXCEPT !.pendingAction = d.pa]
           checked == DetectionAccepted(a) /\ a.missingFields = {} /\ a.intent = "task"
       IN /\ turn' = [turn EXCEPT ![p].detectRan = TRUE,
                                   ![p].detIntent = IF a.failed THEN "none" ELSE a.intent,
                                   ![p].detConf = IF a.failed THEN 0 ELSE a.confidence,
                                   ![p].detFailed = a.failed,
                                   ![p].detMissing = ~a.failed /\ a.missingFields # {},
                                   ![p].detRoutine = ~a.failed /\ a.data.isRoutine = {TRUE},
                                   ![p].likely = IF checked THEN {LikelyRoutine(rc)} ELSE {}]
          /\ IF throws
             THEN /\ pc' = [pc EXCEPT ![p] = "failed"]
                  /\ resp' = [resp EXCEPT ![p] = Resp500]
                  /\ UNCHANGED <<db, conv>>
             ELSE IF ~HasPending(d.pa)
             THEN /\ pc' = [pc EXCEPT ![p] = "plain"]
                  /\ UNCHANGED <<db, conv, resp>>
             ELSE /\ conv' = [conv EXCEPT ![p] = c]
                  /\ db' = IF saveOk THEN Save(c, db) ELSE db
                  /\ pc' = [pc EXCEPT ![p] = IF saveOk THEN "done" ELSE "failed"]
                  /\ resp' = [resp EXCEPT ![p] =
                                IF saveOk THEN [Result(TRUE, d.action) EXCEPT !.http = "200"]
                                ELSE Resp500]
  /\ UNCHANGED <<records, turns>>

\* lines 123-144: the plain conversational reply (chat.sendMessage is not
\* caught at the call site: a failure ends in the catch of POST /chat)
PlainChat(p) ==
  /\ pc[p] = "plain"
  /\ \E chatOk \in BOOLEAN, saveOk \in BOOLEAN :
       LET c == [conv[p] EXCEPT !.messages = Append(@, "assistant")]
       IN IF chatOk
          THEN /\ conv' = [conv EXCEPT ![p] = c]
               /\ db' = IF saveOk THEN Save(c, db) ELSE db
               /\ pc' = [pc EXCEPT ![p] = IF saveOk THEN "done" ELSE "failed"]
               /\ resp' = [resp EXCEPT ![p] =
                             IF saveOk THEN [Result(TRUE, "none") EXCEPT !.http = "200"]
                             ELSE Resp500]
          ELSE /\ pc' = [pc EXCEPT ![p] = "failed"]
               /\ resp' = [resp EXCEPT ![p] = Resp500]
               /\ UNCHANGED <<db, conv>>
  /\ UNCHANGED <<records, turn, turns>>

\* One request of POST /chat, step by step.
Chat(p) ==
  \/ ChatReceive(p)
  \/ HandleRoutineConfirmation(p)
  \/ HandleRoutineSchedule(p)
  \/ HandleSpecificDays(p)
  \/ HandleConfirmation(p)
  \/ HandleMissingFields(p)
  \/ DetectAction(p)
  \/ PlainChat(p)

\* One turn at a time (the usage the design assumes): every request is
\* served to its end before the next one is accepted.
Next == Chat(1)

Spec == Init /\ [][Next]_vars

\* ------------------------------------------------- any stored PendingAction
\* The stored document with every combination of the flow flags, as a prior
\* partial update may have left it.
StoredPendingActions ==
  { [type |-> t[1], data |-> t[2], missingFields |-> m,
     needsRoutineConfirmation |-> rc, needsRoutineSchedule |-> rs,
     needsSpecificDays |-> sd, confirmationNeeded |-> cn] :
      t \in {<<TaskType, TaskData(FullData)>>, <<MeetingType, MeetingData(FullData)>>},
      m \in {{}, {"startDateISO"}},
      rc \in BOOLEAN, rs \in BOOLEAN, sd \in BOOLEAN, cn \in BOOLEAN }

\* The last two requests of a behaviour, served from any stored document.
InitStored ==
  /\ db \in {NoConversation}
            \cup {[messages |-> <<"system", "user">>, pendingAction |-> pa] :
                    pa \in StoredPendingActions}
  /\ records = <<>>
  /\ pc = [p \in Procs |-> "idle"]
  /\ conv = [p \in Procs |-> NoConversation]
  /\ resp = [p \in Procs |-> NoResp]
  /\ turn = [p \in Procs |-> NoTurn]
  /\ turns = MaxTurns - 2

SpecStored == InitStored /\ [][Next]_vars

\* ------------------------------------------------------ concurrent requests
\* Two requests of the same user in flight at once: the steps of POST /chat
\* (read, Gateway call, Executor call, writes) of the two interleave freely;
\* nothing in the handler serialises them.
NextConc == \E p \in Procs : Chat(p)

\* The PendingActions earlier turns leave behind, one for each dialogue state.
DialoguePendingActions ==
  LET rc == NewPA(TaskType, TaskData(FullData), "needsRoutineConfirmation")
  IN { NewPA(TaskType, TaskData(FullData), "confirmationNeeded"),
       NewPA(MeetingType, MeetingData(FullData), "confirmationNeeded"),
       rc,
       OnRoutineConfirm(rc),
       OnAskDays(OnRoutineConfirm(rc)),
       NewMissingPA(TaskType, [EmptyData EXCEPT !.title = {"A"}], {"startDateISO"}) }

\* Two requests arrive while the Conversation is in one of these states.
InitConc ==
  /\ db \in {NoConversation}
            \cup {[messages |-> <<"system", "user">>, pendingAction |-> pa] :
                    pa \in DialoguePendingActions}
  /\ records = <<>>
  /\ pc = [p \in Procs |-> "idle"]
  /\ conv = [p \in Procs |-> NoConversation]
  /\ resp = [p \in Procs |-> NoResp]
  /\ turn = [p \in Procs |-> NoTurn]
  /\ turns = MaxTurns - 2

SpecConc == InitConc /\ [][NextConc]_vars

\* ================================================================= claims
\* the turn of request p has ended with a response other than the 500 one
Completed(p) == pc[p] = "done"
\* the turn of request p has ended
Ended(p) == pc[p] \in {"done", "failed"}
\* the handlers the turn of request p has entered
EnteredSet(p) == {turn[p].entered[i] : i \in 1..Len(turn[p].entered)}

\* The flow flags in the order of spec 4.1.
FlowOrder == <<"needsRoutineConfirmation", "needsRoutineSchedule", "needsSpecificDays",
               "confirmationNeeded", "missingFields">>
FlowActive(pa, f) ==
  IF f = "missingFields" THEN pa.missingFields # {} ELSE pa[f]
ActiveFlows(pa) == {i \in 1..Len(FlowOrder) : FlowActive(pa, FlowOrder[i])}
FlowHandler(i) ==
  <<"routineConfirmation", "routineSchedule", "specificDays", "confirmation",
    "missingFields">>[i]

\* C1: dispatch precedence.  For every stored PendingAction, malformed ones
\* with several flags included, the first sub-flow a turn enters is the one of
\* the first active flag in the order needsRoutineConfirmation,
\* needsRoutineSchedule, needsSpecificDays, confirmationNeeded, missingFields;
\* a turn that started with an active flag and has left the dispatch has
\* entered it; and the missingFields sub-flow is never entered in a turn that
\* started with confirmationNeeded.
C1_DispatchPrecedence ==
  \A p \in Procs :
    LET pa == turn[p].startPA
        act == ActiveFlows(pa)
    IN /\ turn[p].entered # <<>> =>
            /\ act # {}
            /\ Head(turn[p].entered) = FlowHandler(CHOOSE i \in act : \A j \in act : i <= j)
       /\ (HasPending(pa) /\ act # {} /\ pc[p] \in {"done", "failed", "detect", "plain"})
            => turn[p].entered # <<>>
       /\ pa.confirmationNeeded => "missingFields" \notin EnteredSet(p)

\* C1 witness: a turn that started with confirmationNeeded and a non-empty
\* missingFields at once was handled by the confirmation sub-flow.
C1_Witness ==
  \E p \in Procs :
    /\ Completed(p)
    /\ turn[p].startPA.confirmationNeeded
    /\ turn[p].startPA.missingFields # {}
    /\ ~turn[p].startPA.needsRoutineConfirmation
    /\ turn[p].entered = <<"confirmation">>

\* the turn of request p started with a PendingAction
StartedPending(p) == HasPending(turn[p].startPA)
\* the turn of request p was handled by the confirmation sub-flow and the
\* Gateway classified the reply as intent
ConfirmingReply(p, intent) ==
  /\ turn[p].startPA.confirmationNeeded
  /\ "confirmation" \in EnteredSet(p)
  /\ turn[p].intent = intent
SuccessTags == {"create_task_success", "schedule_meeting_success"}
\* a key of a data object holds a value (neither undefined nor null)
Filled(x) == x # {} /\ x # {Null}

\* C2: in every turn exactly one sub-flow is driven: once a handler has been
\* entered, no second handler and no fresh intent detection runs in that turn.
C2_ExactlyOneSubFlow ==
  \A p \in Procs :
    turn[p].entered # <<>> => Len(turn[p].entered) = 1 /\ ~turn[p].detectRan

\* C3: a turn that starts with a PendingAction and ends with an outcome other
\* than <type>_success or action_cancelled leaves a persisted PendingAction of
\* the same type whose data has every slot it had before.
C3_PendingNeverDropped ==
  \A p \in Procs :
    (Completed(p) /\ StartedPending(p) /\ resp[p].action \notin SuccessTags
       /\ resp[p].action # "action_cancelled")
    => /\ db.pendingAction.type = turn[p].startPA.type
       /\ Keys(turn[p].startPA.data) \subseteq Keys(db.pendingAction.data)

\* C4: fresh intent detection runs only in a turn that started with no
\* PendingAction.
C4_DetectOnlyFromIdle ==
  \A p \in Procs : turn[p].detectRan => ~StartedPending(p)

\* C5: a persisted PendingAction has exactly one active flow flag.
C5_OneActiveFlag ==
  HasPending(db.pendingAction) => Cardinality(ActiveFlows(db.pendingAction)) = 1

\* C6: a persisted PendingAction with confirmationNeeded has a title and a
\* start (startDateISO for a task, unless it recurs; startTime or startDateISO
\* for a meeting).
C6_ConfirmationComplete ==
  db.pendingAction.confirmationNeeded
  => LET d == db.pendingAction.data
     IN /\ Filled(d.title)
        /\ \/ d.startDateISO # {}
           \/ d.startTime # {}
           \/ d.scheduleType \in {{"routine"}, {"specific-days"}}

\* C7: a completed Confirming turn whose reply was classified confirm and whose
\* Action Executor call succeeded has created exactly one record of the
\* PendingAction's type, has cleared the persisted PendingAction and answers
\* success = true with the <type>_success tag and the record's title.
C7_ConfirmCreates ==
  \A p \in Procs :
    (Completed(p) /\ ConfirmingReply(p, "confirm") /\ turn[p].execOk)
    => /\ Len(turn[p].created) = 1
       /\ turn[p].created[1].type =
            (IF turn[p].startPA.type = TaskType THEN "Task" ELSE "Meeting")
       /\ ~HasPending(db.pendingAction)
       /\ resp[p].success
       /\ resp[p].action = SuccessTag(turn[p].startPA.type)
       /\ resp[p].title = turn[p].created[1].title

\* C8: a turn that answers creation_failed has committed no record and leaves
\* the persisted PendingAction as it was before the turn.
C8_CreationFailedPreserves ==
  \A p \in Procs :
    (Completed(p) /\ resp[p].action = "creation_failed")
    => /\ turn[p].created = <<>>
       /\ db.pendingAction = turn[p].startPA

\* C9: a completed Confirming turn whose reply was classified reject has
\* created no record, has cleared the persisted PendingAction and answers
\* action_cancelled; the turn after an action_cancelled answer starts with no
\* PendingAction, enters no pending sub-flow and runs fresh intent detection.
C9_RejectCancels ==
  \A p \in Procs :
    /\ (Completed(p) /\ ConfirmingReply(p, "reject"))
       => /\ resp[p].action = "action_cancelled"
          /\ turn[p].created = <<>>
          /\ ~HasPending(db.pendingAction)
    /\ (turn[p].prevAction = "action_cancelled" /\ pc[p] # "idle")
       => /\ ~StartedPending(p)
          /\ turn[p].entered = <<>>
          /\ (pc[p] # "detect" => turn[p].detectRan)

\* C9 witness: the turn after a cancellation has ended, having run the
\* intent detection.
C9_Witness ==
  \E p \in Procs :
    /\ Ended(p)
    /\ turn[p].prevAction = "action_cancelled"
    /\ turn[p].detectRan
    /\ records = <<>>

\* C10: a modify reply in Confirming merges scheduleTime field by field: a
\* sub-field the modifications do not name keeps its previous value.
C10_NestedMerge ==
  \A p \in Procs :
    (Completed(p) /\ ConfirmingReply(p, "modify")
       /\ turn[p].mods.scheduleTime # {} /\ turn[p].startPA.data.scheduleTime # {})
    => LET m == Val(turn[p].mods.scheduleTime)
           old == Val(turn[p].startPA.data.scheduleTime)
           new == Val(db.pendingAction.data.scheduleTime)
       IN /\ m.fixedTime = {} => new.fixedTime = old.fixedTime
          /\ m.minutesBeforeStart = {} => new.minutesBeforeStart = old.minutesBeforeStart

\* the flow flags of a PendingAction
Flags(pa) ==
  <<pa.missingFields, pa.needsRoutineConfirmation, pa.needsRoutineSchedule,
    pa.needsSpecificDays, pa.confirmationNeeded>>

\* C11: a completed Confirming turn whose reply was classified modify has
\* changed only the top-level slots the modifications name: every other key of
\* data, the type and the flags are as before, no record was created and the
\* answer is confirm_action.
C11_ModifyFrame ==
  \A p \in Procs :
    (Completed(p) /\ ConfirmingReply(p, "modify"))
    => /\ resp[p].action = "confirm_action"
       /\ turn[p].created = <<>>
       /\ db.pendingAction.type = turn[p].startPA.type
       /\ Flags(db.pendingAction) = Flags(turn[p].startPA)
       /\ \A f \in SlotNames :
            db.pendingAction.data[f] =
              IF f \in Keys(turn[p].mods) THEN turn[p].mods[f]
              ELSE turn[p].startPA.data[f]

\* C11 witness: a modify that names only the title has completed; the start
\* date is the one the PendingAction had.
C11_Witness ==
  \E p \in Procs :
    /\ Completed(p)
    /\ ConfirmingReply(p, "modify")
    /\ Keys(turn[p].mods) = {"title"}
    /\ turn[p].startPA.data.title = {"A"}
    /\ db.pendingAction.data.title = {"B"}
    /\ db.pendingAction.data.startDateISO = {100}

\* C12: a completed Confirming turn whose reply was classified unclear leaves
\* the persisted PendingAction (type, data, flags) as it was, has created no
\* record and answers awaiting_confirmation.
C12_UnclearFrame ==
  \A p \in Procs :
    (Completed(p) /\ ConfirmingReply(p, "unclear"))
    => /\ resp[p].action = "awaiting_confirmation"
       /\ turn[p].created = <<>>
       /\ db.pendingAction = turn[p].startPA

\* C12 witness: an unclear reply (the Gateway answered, it did not fail) to a
\* confirmation has completed and the PendingAction is still stored.
C12_Witness ==
  \E p \in Procs :
    /\ Completed(p)
    /\ ConfirmingReply(p, "unclear")
    /\ ~turn[p].gwFailed
    /\ HasPending(db.pendingAction)
    /\ resp[p].action = "awaiting_confirmation"

\* the answers that re-prompt in the dialogue state the turn started in
RepromptTags ==
  {"needs_routine_confirmation", "needs_routine_schedule", "needs_specific_days",
   "awaiting_confirmation", "needs_info"}

\* C13: a completed turn that started with a PendingAction and in which the
\* Gateway call analysing the reply failed has left the persisted
\* PendingAction unchanged, has run no intent detection and answers with a
\* re-prompt.
C13_GatewayFailureReprompts ==
  \A p \in Procs :
    (Completed(p) /\ StartedPending(p) /\ turn[p].gwFailed)
    => /\ db.pendingAction = turn[p].startPA
       /\ ~turn[p].detectRan
       /\ resp[p].action \in RepromptTags

\* C14: a record is created only in a turn that started with a PendingAction
\* with confirmationNeeded and whose reply was classified confirm; a turn that
\* started without a PendingAction, and the turn after a success answer,
\* create no record.
C14_ConfirmIdempotent ==
  \A p \in Procs :
    /\ turn[p].created # <<>>
         => /\ turn[p].startPA.confirmationNeeded
            /\ "confirmation" \in EnteredSet(p)
            /\ turn[p].intent = "confirm"
    /\ (pc[p] # "idle" /\ ~StartedPending(p)) => turn[p].created = <<>>
    /\ turn[p].prevAction \in SuccessTags
         => ~StartedPending(p) /\ turn[p].created = <<>>

\* C14 witness: the turn after a success answer has ended; the collection
\* holds the one record of the confirmed PendingAction.
C14_Witness ==
  \E p \in Procs :
    /\ Ended(p)
    /\ turn[p].prevAction \in SuccessTags
    /\ turn[p].detectRan
    /\ Len(records) = 1

\* C15: duplicate confirm replies against one PendingAction instance commit
\* at most one record, for every interleaving of the turns.  In SpecConc two
\* requests are served from one stored Conversation; when both have been
\* answered and both have created a record, both confirmed the PendingAction
\* instance they read before either wrote (a completed confirm clears it).
C15_OneCommitPerInstance ==
  \A p, q \in Procs :
    (p # q /\ Completed(p) /\ Completed(q) /\ turn[p].created # <<>>)
    => turn[q].created = <<>>

\* C16: nothing guards the write of the Conversation: whenever a request
\* completes, the stored document is that request's own in-memory copy,
\* whatever another request has written since this one read.
C16_LastWriteWins ==
  [][\A p \in Procs : (pc[p] # "done" /\ pc'[p] = "done") => db' = conv'[p]]_vars

\* C16 witness: both requests read the same Conversation with a
\* PendingAction and completed; request 1 changed the PendingAction, the
\* stored document is the copy of request 2 with a different PendingAction
\* and without the messages of request 1.
C16_Witness ==
  /\ Completed(1) /\ Completed(2)
  /\ turn[1].startMsgs = turn[2].startMsgs
  /\ turn[1].startPA = turn[2].startPA
  /\ HasPending(turn[1].startPA)
  /\ conv[1].pendingAction # turn[1].startPA
  /\ conv[1].pendingAction # conv[2].pendingAction
  /\ db = conv[2]
  /\ Len(db.messages) = Len(turn[1].startMsgs) + 2

\* C17: a turn that ended with the 500 response has left the persisted
\* Conversation (messages and PendingAction) as it was before the turn and
\* has created no record.
C17_NoPartialWrite ==
  \A p \in Procs :
    pc[p] = "failed"
    => /\ db.messages = turn[p].startMsgs
       /\ db.pendingAction = turn[p].startPA
       /\ turn[p].created = <<>>

\* the lead time a Slot Set holds, if any
LeadOf(d) == IF d.scheduleTime = {} THEN {} ELSE Val(d.scheduleTime).minutesBeforeStart

\* C18: every field of a created record equals the field of the confirmed
\* Slot Set, and a default (lead 15 for a task; lead 10, duration 30 for a
\* meeting; schedule type one-day) stands only where the Slot Set has no value.
C18_RoundTrip ==
  \A p \in Procs :
    turn[p].created # <<>>
    => LET d == turn[p].startPA.data
           r == turn[p].created[1]
           task == turn[p].startPA.type = TaskType
           lead == IF task THEN TaskLeadDefault ELSE MeetingLeadDefault
       IN /\ r.title = d.title
          /\ r.notificationPreferenceMinutes =
               (IF LeadOf(d) # {} THEN LeadOf(d) ELSE {lead})
          /\ d.scheduleTime # {} => r.scheduleTime = d.scheduleTime
          /\ d.scheduleType # {} => r.scheduleType = d.scheduleType
          /\ task => r.startDate = d.startDateISO
          /\ (~task /\ d.startTime # {})
               => /\ r.startDate = d.startTime
                  /\ r.endDate = {Val(d.startTime)
                                   + (IF d.duration # {} THEN Val(d.duration)
                                      ELSE MeetingDurationDefault)}

\* C19: a persisted meeting PendingAction that has a start time and a
\* duration has endTime = startTime + duration and a positive duration; a
\* created meeting record ends after it starts.
C19_MeetingTimes ==
  /\ LET d == db.pendingAction.data
     IN (db.pendingAction.type = MeetingType /\ d.startTime # {} /\ d.duration # {})
        => /\ Val(d.duration) > 0
           /\ d.endTime = {Val(d.startTime) + Val(d.duration)}
  /\ \A i \in 1..Len(records) :
       records[i].type = "Meeting"
       => Val(records[i].endDate) > Val(records[i].startDate)

\* the answers that announce a newly started PendingAction
StartTags == {"needs_info", "needs_routine_confirmation", "confirm_action"}

C21_DetectionFailurePlain ==
  \A p \in Procs :
    (turn[p].detFailed /\ ~StartedPending(p))
    => /\ pc[p] \in {"plain", "done", "failed"}
       /\ ~HasPending(db.pendingAction)
       /\ ~HasPending(conv[p].pendingAction)
       /\ turn[p].created = <<>>
       /\ Completed(p) => resp[p].action = "none"

\* C21 witness: an Idle turn whose intent detection failed has completed with
\* the plain reply appended to the stored conversation.
C21_Witness ==
  \E p \in Procs :
    /\ Completed(p)
    /\ turn[p].detFailed
    /\ ~StartedPending(p)
    /\ db.messages = Append(Append(IF turn[p].startMsgs = <<>> THEN <<"system">>
                                   ELSE turn[p].startMsgs, "user"), "assistant")
    /\ db.pendingAction = NoPA

\* the ten action tags of the response
ActionTags ==
  {"needs_info", "needs_routine_confirmation", "needs_routine_schedule",
   "needs_specific_days", "confirm_action", "create_task_success",
   "schedule_meeting_success", "action_cancelled", "awaiting_confirmation",
   "creation_failed"}

\* the turn of request p reached the intent detection, which found no action
DetectedNothing(p) ==
  /\ turn[p].detectRan
  /\ (turn[p].detIntent = "none" \/ turn[p].detConf < ConfidenceThreshold)

\* C22 (as stated): every turn processed without an internal failure returns
\* a response whose action tag is one of the ten declared tags.
C22_EveryTurnTagged ==
  \A p \in Procs : Completed(p) => resp[p].action \in ActionTags

\* C22 (amended): a completed turn whose result comes from a pending sub-flow
\* or from a newly detected action carries one of the ten declared tags; a
\* completed turn in which the detection found no action is answered by the
\* plain conversational reply, which carries no action tag.
C22_TaggedUnlessPlain ==
  \A p \in Procs :
    Completed(p)
    => IF DetectedNothing(p)
       THEN resp[p].action = "none"
       ELSE resp[p].action \in ActionTags

\* C22 witness: after a turn answered confirm_action, a completed turn of
\* the confirmation sub-flow created a record and answered with the success
\* tag of its type.
C22_Witness ==
  \E p \in Procs :
    /\ Completed(p)
    /\ ~DetectedNothing(p)
    /\ turn[p].created # <<>>
    /\ resp[p].action = SuccessTag(turn[p].startPA.type)
    /\ turn[p].prevAction = "confirm_action"

\* the positions of a request between the read of the Conversation and the
\* end of the turn
Dispatching == {Labels[i] : i \in 1..Len(Labels)} \cup {"detect", "plain"}

\* the Conversation a turn works on when the store held stored at its start:
\* the stored document, or a new one with the system prompt, plus the user
\* message
Resumed(stored) ==
  [messages |-> Append(IF stored.messages = <<>> THEN NewConversation.messages
                       ELSE stored.messages, "user"),
   pendingAction |-> stored.pendingAction]

\* C23: deterministic resumption.  Until a turn writes its result, the
\* document it works on is the persisted Conversation as read at the start of
\* the turn plus the user message, whatever earlier requests left in the
\* process; every step of the dispatch computes the next PendingAction, the
\* action tag and the record from that document and the answers of the turn.
C23_ResumesFromStore ==
  \A p \in Procs :
    pc[p] \in Dispatching
    => conv[p] = Resumed([messages |-> turn[p].startMsgs,
                          pendingAction |-> turn[p].startPA])

\* C23 witness: the third request is dispatched to the routine question from
\* the stored document after the second request, which worked on the same
\* stored document, ended without persisting anything (its in-memory document
\* had moved on).
C23_Witness ==
  \E p \in Procs :
    /\ turns = 3
    /\ pc[p] = "hpa_rc"
    /\ turn[p].startMsgs = <<"system", "user">>
    /\ turn[p].startPA.needsRoutineConfirmation
    /\ conv[p].pendingAction = db.pendingAction

\* the turn of request p ran the intent detection, which found an action
DetectedAction(p) ==
  /\ turn[p].detectRan
  /\ turn[p].detIntent \in {"task", "meeting"}
  /\ turn[p].detConf >= ConfidenceThreshold

\* the index in FlowOrder of a flow flag
FlowIndex(f) == CHOOSE i \in 1..Len(FlowOrder) : FlowOrder[i] = f

\* pa is in the dialogue state of flow flag f: f is its only active flag
InFlow(pa, f) == HasPending(pa) /\ ActiveFlows(pa) = {FlowIndex(f)}

RoutineFlags == {"needsRoutineConfirmation", "needsRoutineSchedule", "needsSpecificDays"}

\* pa is in the routine flow
InRoutineFlow(pa) == HasPending(pa) /\ \E f \in RoutineFlags : pa[f]

\* C25: the routine flow is confined to tasks that are not already routine.
\* Every PendingAction, persisted or held by a request, with
\* needsRoutineConfirmation, needsRoutineSchedule or needsSpecificDays active
\* has type create_task, and one with needsRoutineConfirmation active has
\* data.isRoutine false.
C25_RoutineOnlyTasks ==
  \A pa \in {db.pendingAction} \cup {conv[p].pendingAction : p \in Procs} :
    InRoutineFlow(pa)
    => /\ pa.type = TaskType
       /\ pa.needsRoutineConfirmation => pa.data.isRoutine = {FALSE}

\* C25 witness: in the turn after a PendingAction was cancelled or committed,
\* the detection found a routine-likely task that does not assert isRoutine
\* and a create_task PendingAction with needsRoutineConfirmation is stored.
C25_Witness ==
  \E p \in Procs :
    /\ Completed(p)
    /\ turn[p].likely = {TRUE}
    /\ turn[p].prevAction \in {"action_cancelled"} \cup SuccessTags
    /\ db.pendingAction.needsRoutineConfirmation
    /\ db.pendingAction.type = TaskType
    /\ db.pendingAction.data.isRoutine = {FALSE}

\* C26: every create_task PendingAction whose data does not assert isRoutine
\* has had the routine-likelihood check applied before it enters Confirming:
\* a completed turn that brought such a PendingAction into Confirming from
\* outside the routine flow (from the fresh detection or from
\* CollectingFields) ran the routine check.
C26_RoutineCheckedBeforeConfirming ==
  \A p \in Procs :
    LET pa == db.pendingAction
    IN (/\ Completed(p)
        /\ InFlow(pa, "confirmationNeeded")
        /\ pa.type = TaskType
        /\ pa.data.isRoutine # {TRUE}
        /\ ~turn[p].startPA.confirmationNeeded
        /\ ~InRoutineFlow(turn[p].startPA))
       => turn[p].likely # {}

\* the turn of request p started in RoutineConfirming, was handled by the
\* routine-confirmation sub-flow, and the Gateway classified the reply as
\* intent
RoutineReply(p, intent) ==
  /\ InFlow(turn[p].startPA, "needsRoutineConfirmation")
  /\ turn[p].entered # <<>>
  /\ Head(turn[p].entered) = "routineConfirmation"
  /\ turn[p].rcIntent = intent

C28_RejectToConfirming ==
  \A p \in Procs :
    (Completed(p) /\ RoutineReply(p, "reject"))
    => /\ db.pendingAction.type = turn[p].startPA.type
       /\ db.pendingAction.data = [turn[p].startPA.data EXCEPT !.scheduleType = {"one-day"},
                                                               !.isRoutine = {FALSE}]
       /\ InFlow(db.pendingAction, "confirmationNeeded")
       /\ resp[p].action = "confirm_action"
       /\ turn[p].created = <<>>

\* C28 witness: a completed turn in RoutineConfirming with a rejecting reply
\* to a task detected with scheduleType specific-days and two days; the
\* stored PendingAction is in Confirming with scheduleType one-day and the
\* days kept.
C28_Witness ==
  \E p \in Procs :
    /\ Completed(p)
    /\ RoutineReply(p, "reject")
    /\ turn[p].startPA.data.scheduleType = {"specific-days"}
    /\ db.pendingAction.data.scheduleType = {"one-day"}
    /\ db.pendingAction.data.scheduleDays = {{"MO", "WE"}}
    /\ db.pendingAction.confirmationNeeded

\* the turn of request p started in the dialogue state of flow flag f and
\* was handled by that flag's sub-flow first
HandledIn(p, f) ==
  /\ InFlow(turn[p].startPA, f)
  /\ turn[p].entered # <<>>
  /\ Head(turn[p].entered) = FlowHandler(FlowIndex(f))

\* data with the days of a specific-days routine applied
WithSpecificDays(data, days) ==
  [data EXCEPT !.scheduleType = {"specific-days"}, !.scheduleDays = {days},
               !.isRoutine = {TRUE}]

\* C29: in RoutineScheduleChoosing a reply that chooses specific days and
\* names at least one day goes directly to Confirming with scheduleType
\* specific-days, scheduleDays the named days and isRoutine true, without
\* entering the specific-days sub-flow; a reply that chooses specific days
\* and names none moves to SpecificDaysCollecting (needsSpecificDays the only
\* active flag, needs_specific_days) with the data unchanged.
C29_SpecificDaysChoice ==
  \A p \in Procs :
    (/\ Completed(p)
     /\ HandledIn(p, "needsRoutineSchedule")
     /\ turn[p].sched = "specific-days")
    => /\ turn[p].entered = <<"routineSchedule">>
       /\ turn[p].created = <<>>
       /\ db.pendingAction.type = turn[p].startPA.type
       /\ IF turn[p].days # {}
          THEN /\ db.pendingAction.data = WithSpecificDays(turn[p].startPA.data, turn[p].days)
               /\ InFlow(db.pendingAction, "confirmationNeeded")
               /\ resp[p].action = "confirm_action"
          ELSE /\ db.pendingAction.data = turn[p].startPA.data
               /\ InFlow(db.pendingAction, "needsSpecificDays")
               /\ resp[p].action = "needs_specific_days"

\* C29 witness: a completed turn in RoutineScheduleChoosing whose reply chose
\* specific days and named Monday and Wednesday: the stored PendingAction is
\* in Confirming with these days.
C29_Witness ==
  \E p \in Procs :
    /\ Completed(p)
    /\ HandledIn(p, "needsRoutineSchedule")
    /\ turn[p].sched = "specific-days"
    /\ turn[p].days = {"MO", "WE"}
    /\ db.pendingAction.confirmationNeeded
    /\ db.pendingAction.data.scheduleDays = {{"MO", "WE"}}

\* C30: in SpecificDaysCollecting an empty day extraction, a Gateway failure
\* included, leaves the PendingAction as it was and answers
\* needs_specific_days again; a non-empty extraction sets scheduleType to
\* specific-days, scheduleDays to the extracted days and isRoutine to true,
\* keeps the other slots and moves to Confirming (confirm_action).
C30_SpecificDaysCollecting ==
  \A p \in Procs :
    (Completed(p) /\ HandledIn(p, "needsSpecificDays"))
    => /\ turn[p].entered = <<"specificDays">>
       /\ turn[p].created = <<>>
       /\ turn[p].gwFailed => turn[p].days = {}
       /\ IF turn[p].days = {}
          THEN /\ db.pendingAction = turn[p].startPA
               /\ resp[p].action = "needs_specific_days"
          ELSE /\ db.pendingAction.type = turn[p].startPA.type
               /\ db.pendingAction.data = WithSpecificDays(turn[p].startPA.data, turn[p].days)
               /\ InFlow(db.pendingAction, "confirmationNeeded")
               /\ resp[p].action = "confirm_action"

\* C30 witness: a completed turn in SpecificDaysCollecting whose day
\* extraction failed at the Gateway: the stored PendingAction is the one the
\* turn started with and the answer asks for the days again.
C30_Witness ==
  \E p \in Procs :
    /\ Completed(p)
    /\ HandledIn(p, "needsSpecificDays")
    /\ turn[p].gwFailed
    /\ db.pendingAction = turn[p].startPA
    /\ db.pendingAction.needsSpecificDays
    /\ resp[p].action = "needs_specific_days"

\* the days of a Slot Set: data.scheduleDays, none when the key is absent
DaysOf(d) == Val(OrObj(d.scheduleDays, {}))

\* the schedule type of a Slot Set; createTask reads an absent one as one-day
TypeOf(d) == Val(OrStr(d.scheduleType, "one-day"))

\* C31: scheduleDays invariant.  In every persisted Confirming state of a
\* task, scheduleDays is a set of weekday codes, it is non-empty exactly when
\* scheduleType is specific-days or routine (a daily routine), and it is all
\* seven days exactly when scheduleType is routine; a one-day task has no
\* scheduleDays, also after a routine offer was rejected.
C31_ScheduleDays ==
  LET pa == db.pendingAction
  IN (InFlow(pa, "confirmationNeeded") /\ pa.type = TaskType)
     => /\ DaysOf(pa.data) \subseteq AllDays
        /\ DaysOf(pa.data) # {} <=> TypeOf(pa.data) \in {"specific-days", "routine"}
        /\ DaysOf(pa.data) = AllDays <=> TypeOf(pa.data) = "routine"

\* C32: isRoutine mirrors scheduleType.  In every persisted PendingAction of
\* a task that is in RoutineConfirming, RoutineScheduleChoosing,
\* SpecificDaysCollecting or Confirming, data.isRoutine is true exactly when
\* data.scheduleType is routine or specific-days.
C32_IsRoutineMirrorsScheduleType ==
  LET pa == db.pendingAction
  IN (/\ HasPending(pa)
      /\ pa.type = TaskType
      /\ (InRoutineFlow(pa) \/ pa.confirmationNeeded))
     => (pa.data.isRoutine = {TRUE}
           <=> TypeOf(pa.data) \in {"routine", "specific-days"})

\* the fields of missing that hold no value in data
StillMissing(missing, data) == {f \in missing : data[f] = {}}

\* C33: Slot Filler transition.  After a completed CollectingFields turn the
\* data is the old data with every extracted value written over it; the
\* next state is Confirming exactly when no field of the old missingFields is
\* still without a value, and otherwise the state stays CollectingFields with
\* missingFields the non-empty set of the fields still missing and the answer
\* needs_info.
C33_SlotFillerTransition ==
  \A p \in Procs :
    (Completed(p) /\ HandledIn(p, "missingFields"))
    => LET old == turn[p].startPA
           pa == db.pendingAction
           remaining == StillMissing(old.missingFields, pa.data)
       IN /\ pa.type = old.type
          /\ pa.data = Spread(old.data, turn[p].extracted)
          /\ IF remaining = {}
             THEN InFlow(pa, "confirmationNeeded") /\ resp[p].action = "confirm_action"
             ELSE /\ InFlow(pa, "missingFields")
                  /\ pa.missingFields = remaining
                  /\ resp[p].action = "needs_info"

\* C34: Slot Filler no-progress case.  When the field extraction of a
\* completed CollectingFields turn yields no value (an empty extractedData,
\* or a Gateway failure), the data and the missingFields of the persisted
\* PendingAction are those the turn started with and the answer is
\* needs_info.
C34_NoProgressFrame ==
  \A p \in Procs :
    (/\ Completed(p)
     /\ HandledIn(p, "missingFields")
     /\ turn[p].extracted = EmptyData)
    => /\ db.pendingAction.data = turn[p].startPA.data
       /\ db.pendingAction.missingFields = turn[p].startPA.missingFields
       /\ resp[p].action = "needs_info"

\* the start a Slot Set holds: startDateISO, the key the detection, the
\* extraction and the modifications write, or else startTime
SlotStart(d) == IF d.startDateISO # {} THEN d.startDateISO ELSE d.startTime

\* C35: a meeting's confirmed start reaches the record.  In every completed
\* confirm turn that created a Meeting record from a Slot Set that holds a
\* start, the record's startDate is that start (and not the current time),
\* whether Confirming was entered from the detection or through
\* CollectingFields, and after a modify of the date.
C35_MeetingStartReachesRecord ==
  \A p \in Procs :
    (/\ Completed(p)
     /\ ConfirmingReply(p, "confirm")
     /\ turn[p].startPA.type = MeetingType
     /\ turn[p].created # <<>>
     /\ SlotStart(turn[p].startPA.data) # {})
    => turn[p].created[1].startDate = SlotStart(turn[p].startPA.data)

\* what an action tag says about the PendingAction pa
TagAgrees(tag, pa) ==
  CASE tag = "needs_info" -> HasPending(pa) /\ pa.missingFields # {}
    [] tag = "needs_routine_confirmation" -> HasPending(pa) /\ pa.needsRoutineConfirmation
    [] tag = "needs_routine_schedule" -> HasPending(pa) /\ pa.needsRoutineSchedule
    [] tag = "needs_specific_days" -> HasPending(pa) /\ pa.needsSpecificDays
    [] tag \in {"confirm_action", "awaiting_confirmation"} ->
         HasPending(pa) /\ pa.confirmationNeeded
    [] tag \in SuccessTags \cup {"action_cancelled"} -> ~HasPending(pa)
    [] OTHER -> TRUE

\* C36: the action tag a completed turn returns agrees with the
\* PendingAction the turn persisted: needs_info with a non-empty
\* missingFields, needs_routine_confirmation, needs_routine_schedule and
\* needs_specific_days with their flags, confirm_action and
\* awaiting_confirmation with confirmationNeeded, a success tag and
\* action_cancelled with no PendingAction.
C36_TagAgreesWithPending ==
  \A p \in Procs : Completed(p) => TagAgrees(resp[p].action, db.pendingAction)

\* C37: after every completed turn the persisted message log is the log the
\* turn started with (the system prompt for a new conversation) followed by
\* the user's message and the assistant reply that was returned, for turns
\* handled by a pending sub-flow, for turns that start a PendingAction from
\* the detection, and for plain conversational turns.
C37_LogGrowsByUserAndReply ==
  \A p \in Procs :
    Completed(p)
    => db.messages = Append(Resumed([messages |-> turn[p].startMsgs,
                                     pendingAction |-> turn[p].startPA]).messages,
                            "assistant")

\* C38: once the persisted PendingAction is in Confirming, every write of
\* the turn-at-a-time dialogue either keeps it in Confirming with the same
\* type, or clears it, and it is cleared only by the confirmation sub-flow on
\* a reject or on a confirm that created the record; no step moves it to
\* CollectingFields or into the routine flow.
C38_ConfirmingOnlyToIdle ==
  [][InFlow(db.pendingAction, "confirmationNeeded")
     => \/ /\ InFlow(db'.pendingAction, "confirmationNeeded")
           /\ db'.pendingAction.type = db.pendingAction.type
        \/ /\ ~HasPending(db'.pendingAction)
           /\ \E p \in Procs :
                /\ pc[p] = "hpa_cn"
                /\ \/ turn'[p].intent = "reject"
                   \/ turn'[p].intent = "confirm" /\ turn'[p].created # <<>>]_vars

\* C38 witness: a completed turn in Confirming whose reply was a modification:
\* the persisted PendingAction is still in Confirming, with the same type and
\* changed data.
C38_Witness ==
  \E p \in Procs :
    /\ Completed(p)
    /\ ConfirmingReply(p, "modify")
    /\ InFlow(turn[p].startPA, "confirmationNeeded")
    /\ InFlow(db.pendingAction, "confirmationNeeded")
    /\ db.pendingAction.type = turn[p].startPA.type
    /\ db.pendingAction.data # turn[p].startPA.data

\* The PendingActions one clear reply (answered by a non-failing Gateway and
\* saved by a non-failing store) can leave in place of pa, by the sub-flow
\* that handles pa; none when no sub-flow handles it, and none from
\* Confirming, which a clear reply ends.
ClearReplies(pa) ==
  LET at == NextCheck(pa, 1)
      named == DaySets \ {{}}
  IN CASE at = "hpa_rc" -> {OnRoutineConfirm(pa), OnRoutineReject(pa)}
       [] at = "hpa_rs" -> {OnDaily(pa), OnAskDays(pa)}
                             \cup {OnSpecificDays(pa, days) : days \in named}
       [] at = "hpa_sd" -> {OnSpecificDays(pa, days) : days \in named}
       [] at = "hpa_mf" ->
            {OnFieldsFilled(pa, Spread(pa.data, e)) : e \in ExtractedData}
       [] OTHER -> {}

\* pa is ended by a creation or a cancellation after at most n clear replies
\* and the confirm or reject that follows them
RECURSIVE CanFinish(_, _)
CanFinish(pa, n) ==
  /\ HasPending(pa)
  /\ \/ NextCheck(pa, 1) = "hpa_cn"
     \/ n > 0 /\ \E next \in ClearReplies(pa) : CanFinish(next, n - 1)

\* C39: no dead end.  From every persisted state that holds a PendingAction
\* there is a finite sequence of clear replies, one for each sub-flow still to
\* pass at most, after which a confirm or a reject ends the PendingAction by
\* a creation or a cancellation.
C39_NoDeadEnd ==
  HasPending(db.pendingAction) => CanFinish(db.pendingAction, Len(FlowOrder))

====
